---- MODULE Spec2Model ----
(***************************************************************************)
(* PlayTheList: the track-resolution and transfer core                     *)
(* (src/playlist_agent.py) and the request-rate governors                  *)
(* (src/app.py check_rate_limit, src/rate_limiter.py RateLimiter).         *)
(*                                                                         *)
(* Python strings are sequences of one-character strings; Python's None    *)
(* for an optional string is the empty tuple and a present string s is     *)
(* <<s>>; platform ids are atoms and the atom "None" is Python's None.     *)
(***************************************************************************)
EXTENDS Integers, Sequences, FiniteSets, TLC

(***************************************************************************)
(* State                                                                   *)
(***************************************************************************)

\* one transfer_playlist call
VARIABLES
  tpc,      \* where the call stands: idle, detected, read, user, resolving, done, failed
  url,      \* the url argument
  target,   \* the target argument
  tracks,   \* the (title, artist) pairs read from the source playlist
  idx,      \* index of the next track of the for loop
  found,    \* per processed track, the id its search returned (NoId for None)
  uris,     \* uris / video_ids
  missing,  \* missing
  calls,    \* external calls issued so far: [op, track], track 0 outside the loop
  added,    \* <<ids>> once playlist_add_items was called with ids, else <<>>
  result,   \* <<[playlist_url, missing]>> once returned, else <<>>
  error,    \* the exception that ended the call, "none" while there is none
  via,      \* the entry point: "direct" (transfer_playlist) or "safe" (safe_transfer_playlist)
  reply     \* <<what safe_transfer_playlist returned>>, else <<>>

transferVars ==
  <<tpc, url, target, tracks, idx, found, uris, missing, calls, added, result,
    error, via, reply>>

\* one search on drawn inputs
VARIABLES
  rin,   \* the inputs: platform, title, artist, the catalog answers, the oracle outcome
  rout   \* <<outcome>> once the search has run, else <<>>

resolveVars == <<rin, rout>>

\* the rate governors
VARIABLES
  clock,         \* the current instant: time.time() / datetime.now()
  impl,          \* which governor this process runs: "app" or "limiter"
  max_requests,  \* the max_requests argument of the checks
  window_minutes,\* the window_minutes argument of the checks
  redis_client,  \* RateLimiter.redis_client is set (FALSE: None after _connect failed)
  user_requests, \* st.session_state.user_requests: per user, a list of instants
  zset,          \* the store's sorted set rate_limit:{user}: members and expiry
  fbkey,         \* the store's string key rate_limit_fallback:{user}: list and expiry
  admitted,      \* the checks answered Allowed so far: [user, t, path]
  last           \* the last check: arguments, path taken, decision, store before/after

rateVars ==
  <<clock, impl, max_requests, window_minutes, redis_client, user_requests,
    zset, fbkey, admitted, last>>

\* two concurrent RateLimiter.check_rate_limit calls for one user
VARIABLES
  rpc,   \* per call, where it stands: start, pipe, get, setex, done
  rnow,  \* per call, its local now
  rreq,  \* per call, its local requests list
  rres   \* per call, the pair it returned and the path that produced it

raceVars == <<rpc, rnow, rreq, rres>>

\* clean_title applied to a drawn string, and again to its own result
VARIABLES
  cin,   \* the string drawn
  cout   \* the results so far: <<>>, <<clean_title(cin)>>, then the second pass too

cleanVars == <<cin, cout>>

\* fallback_match on a drawn query and candidate list
VARIABLES
  mq,    \* the query
  mc,    \* the candidates
  mout   \* <<what fallback_match returned>> once it has run, else <<>>

matchVars == <<mq, mc, mout>>

\* RateLimiter.get_rate_limit_info
VARIABLES
  info   \* the last report: its fields, the instant and the store it was taken on

infoVars == <<info>>

vars ==
  <<transferVars, resolveVars, rateVars, raceVars, cleanVars, matchVars, infoVars>>

(***************************************************************************)
(* Strings                                                                 *)
(***************************************************************************)

\* code point of a character of the model's alphabet (str comparison order)
Ord(c) ==
  CASE c = " " -> 32
    [] c = "-" -> 45
    [] c = "E" -> 69
    [] c = "N" -> 78
    [] c = "O" -> 79
    [] c = "a" -> 97
    [] c = "b" -> 98
    [] c = "c" -> 99
    [] c = "x" -> 120
    [] c = "y" -> 121
    [] OTHER -> 122

\* Python's a < b on str: lexicographic by code point, a proper prefix is less
RECURSIVE StrLess(_, _)
StrLess(a, b) ==
  IF b = <<>> THEN FALSE
  ELSE IF a = <<>> THEN TRUE
  ELSE IF Ord(Head(a)) # Ord(Head(b)) THEN Ord(Head(a)) < Ord(Head(b))
  ELSE StrLess(Tail(a), Tail(b))

\* str.strip(): leading and trailing whitespace removed
RECURSIVE LStrip(_)
LStrip(s) == IF s # <<>> /\ Head(s) = " " THEN LStrip(Tail(s)) ELSE s

RECURSIVE RStrip(_)
RStrip(s) ==
  IF s # <<>> /\ s[Len(s)] = " " THEN RStrip(SubSeq(s, 1, Len(s) - 1)) ELSE s

Strip(s) == RStrip(LStrip(s))

None == <<>>
Some(s) == <<s>>
NoId == "None"

NONE_STR == <<"N", "O", "N", "E">>

\* f"{title} {artist}": the query and the display string of a candidate
Display(title, artist) == title \o <<" ">> \o artist

\* f"{title} - {artist}": one entry of the missing report
Render(title, artist) == title \o <<" ", "-", " ">> \o artist

(***************************************************************************)
(* difflib.get_close_matches as fallback_match uses it                     *)
(***************************************************************************)

\* length of the common run of a from i and b from j
RECURSIVE CommonLen(_, _, _, _)
CommonLen(a, b, i, j) ==
  IF i > Len(a) \/ j > Len(b) \/ a[i] # b[j] THEN 0
  ELSE 1 + CommonLen(a, b, i + 1, j + 1)

\* SequenceMatcher.find_longest_match without junk: the longest block, the one
\* starting earliest in a, and of those the one starting earliest in b
find_longest_match(a, b) ==
  LET P == (1..Len(a)) \X (1..Len(b))
      best == CHOOSE p \in P :
                \A q \in P :
                  LET kp == CommonLen(a, b, p[1], p[2])
                      kq == CommonLen(a, b, q[1], q[2])
                  IN  \/ kp > kq
                      \/ /\ kp = kq
                         /\ \/ p[1] < q[1]
                            \/ p[1] = q[1] /\ p[2] <= q[2]
  IN  <<best[1], best[2], CommonLen(a, b, best[1], best[2])>>

\* sum of the sizes of SequenceMatcher.get_matching_blocks()
RECURSIVE MatchCount(_, _)
MatchCount(a, b) ==
  IF a = <<>> \/ b = <<>> THEN 0
  ELSE LET m == find_longest_match(a, b)
           i == m[1]
           j == m[2]
           k == m[3]
       IN  IF k = 0 THEN 0
           ELSE k + MatchCount(SubSeq(a, 1, i - 1), SubSeq(b, 1, j - 1))
                  + MatchCount(SubSeq(a, i + k, Len(a)), SubSeq(b, j + k, Len(b)))

\* SequenceMatcher.ratio() = 2.0*M/T (1.0 when T = 0), kept as <<numerator, denominator>>
Ratio(a, b) ==
  IF Len(a) + Len(b) = 0 THEN <<1, 1>>
  ELSE <<2 * MatchCount(a, b), Len(a) + Len(b)>>

\* the cutoff=0.7 of fallback_match, in tenths
CutoffTenths == 7

\* s.ratio() >= cutoff
Accepts(r) == r[1] * 10 >= CutoffTenths * r[2]

\* (score, x) tuple order of heapq.nlargest: score first, then the string
ScoredGeq(r1, s1, r2, s2) ==
  \/ r1[1] * r2[2] > r2[1] * r1[2]
  \/ r1[1] * r2[2] = r2[1] * r1[2] /\ ~StrLess(s1, s2)

\* fallback_match(query, candidates): get_close_matches(query, candidates, n=1, cutoff=0.7)
fallback_match(query, candidates) ==
  LET ok == {i \in DOMAIN candidates : Accepts(Ratio(candidates[i], query))}
  IN  IF ok = {} THEN None
      ELSE LET b == CHOOSE i \in ok :
                      \A j \in ok :
                        ScoredGeq(Ratio(candidates[i], query), candidates[i],
                                  Ratio(candidates[j], query), candidates[j])
           IN  Some(candidates[b])

(***************************************************************************)
(* The AI oracle and the two catalog searches                              *)
(***************************************************************************)

\* An oracle outcome: openai.chat.completions.create raised (a timeout, an
\* API error), or it answered with a text.
OracleRaise == [kind |-> "raise", text |-> <<>>]
OracleText(s) == [kind |-> "text", text |-> s]

\* ai_best_match(query, candidates) under the oracle outcome resp: the
\* stripped answer, and "NONE" when the call raised
ai_best_match(query, candidates, resp) ==
  IF resp.kind = "raise" THEN NONE_STR ELSE Strip(resp.text)

\* A catalog answer: the search call raised, or it returned items, each
\* [title, artists, id] (Spotify's name/uri, YouTube Music's title/videoId)
SearchRaise == [kind |-> "raise", items |-> <<>>]
SearchOk(items) == [kind |-> "ok", items |-> items]

\* results[:n]
Take(s, n) == SubSeq(s, 1, IF Len(s) < n THEN Len(s) ELSE n)

\* f"{r['title']} {r['artists'][0]['name']}" raises IndexError without artists
HasArtist(r) == r.artists # <<>>
DisplayOf(r) == Display(r.title, r.artists[1])

\* Python truthiness of best: neither None nor ""
Truthy(best) == best # None /\ best[1] # <<>>

\* results[:5] of search_ytmusic and limit=5 of search_spotify
SearchLimit == 5

\* The outcome of a search: the id (NoId for None), whether an exception left
\* the function, and the external calls it issued, in order
Outcome(id, raised, issued) == [id |-> id, raised |-> raised, calls |-> issued]

\* FindBest keeping the last result whose display string is best
FindBestLast(results, best, issued) ==
  LET hit == {i \in DOMAIN results :
                HasArtist(results[i]) /\ DisplayOf(results[i]) = best[1]}
  IN  IF \E i \in DOMAIN results : ~HasArtist(results[i])
      THEN Outcome(NoId, TRUE, issued)
      ELSE IF hit = {} THEN Outcome(NoId, FALSE, issued)
      ELSE Outcome(results[CHOOSE k \in hit : \A m \in hit : k >= m].id, FALSE, issued)

\* for r in results: if display(r) == best: return id(r); then return None
FindBest(results, best, issued) ==
  LET hit == {i \in DOMAIN results :
                ~HasArtist(results[i]) \/ DisplayOf(results[i]) = best[1]}
  IN  IF hit = {} THEN Outcome(NoId, FALSE, issued)
      ELSE LET i == CHOOSE k \in hit : \A m \in hit : k <= m
           IN  IF ~HasArtist(results[i]) THEN Outcome(NoId, TRUE, issued)
               ELSE Outcome(results[i].id, FALSE, issued)

\* The AI tier, the fuzzy tier and the lookup of the chosen string, as both
\* searches run them on the candidate display strings of shown
Tiers(query, results, shown, resp, issued) ==
  IF \E i \in DOMAIN shown : ~HasArtist(shown[i])
  THEN Outcome(NoId, TRUE, issued)
  ELSE LET candidates == [i \in DOMAIN shown |-> DisplayOf(shown[i])]
           ai == ai_best_match(query, candidates, resp)
           fuzzy == ai = NONE_STR
           best == IF fuzzy THEN fallback_match(query, candidates) ELSE Some(ai)
           made == issued \o <<"ai">> \o (IF fuzzy THEN <<"fuzzy">> ELSE <<>>)
       IN  IF Truthy(best) THEN FindBest(results, best, made)
           ELSE Outcome(NoId, FALSE, made)

\* search_ytmusic(title, artist): res is what ytmusic.search answers
search_ytmusic(title, artist, res, resp) ==
  IF res.kind = "raise" THEN Outcome(NoId, TRUE, <<"search">>)
  ELSE Tiers(Display(title, artist), res.items, Take(res.items, SearchLimit),
             resp, <<"search">>)

\* search_spotify's try block taking the last hit of the field-scoped query
search_spotify_tryMut(title, artist, r1, r2, resp) ==
  IF r1.kind = "raise" THEN Outcome(NoId, TRUE, <<"search_scoped">>)
  ELSE IF r1.items # <<>>
  THEN Outcome(r1.items[Len(r1.items)].id, FALSE, <<"search_scoped">>)
  ELSE Outcome(NoId, FALSE, <<"search_scoped", "search_title">>)

\* search_spotify's try block handing the hits of the title-only query to the tiers
search_spotify_tryShown(title, artist, r1, r2, resp) ==
  IF r1.kind = "raise" THEN Outcome(NoId, TRUE, <<"search_scoped">>)
  ELSE IF r1.items # <<>>
  THEN Outcome(r1.items[1].id, FALSE, <<"search_scoped">>)
  ELSE IF r2.kind = "raise"
  THEN Outcome(NoId, TRUE, <<"search_scoped", "search_title">>)
  ELSE Tiers(Display(title, artist), r2.items, r2.items, resp,
             <<"search_scoped", "search_title">>)

\* the body of search_spotify's try block: r1 answers the field-scoped query,
\* r2 the title-only query
search_spotify_try(title, artist, r1, r2, resp) ==
  IF r1.kind = "raise" THEN Outcome(NoId, TRUE, <<"search_scoped">>)
  ELSE IF r1.items # <<>>
  THEN Outcome(r1.items[1].id, FALSE, <<"search_scoped">>)
  ELSE IF r2.kind = "raise"
  THEN Outcome(NoId, TRUE, <<"search_scoped", "search_title">>)
  ELSE IF r2.items # <<>>
  THEN Outcome(r2.items[1].id, FALSE, <<"search_scoped", "search_title">>)
  ELSE Tiers(Display(title, artist), r2.items, r2.items, resp,
             <<"search_scoped", "search_title">>)

\* search_spotify(title, artist): any exception is logged and None returned
search_spotify(title, artist, r1, r2, resp) ==
  LET tried == search_spotify_try(title, artist, r1, r2, resp)
  IN  IF tried.raised THEN Outcome(NoId, FALSE, tried.calls) ELSE tried

(***************************************************************************)
(* Bounds and input sets                                                   *)
(***************************************************************************)

\* longest source playlist
MaxTracks == 2
\* longest catalog answer of the resolver runs
MaxResults == 2

Titles == {<<"a", "b">>, <<"a", "c">>}
Artists == {<<"x">>, <<"y">>}

\* (title, artist) pairs as get_youtube_tracks / get_spotify_tracks return them
TrackRefs == {<<<<"a", "b">>, <<"x">>>>, <<<<"a", "b">>, <<"y">>>>,
              <<<<"a", "c">>, <<"y">>>>}

SeqsUpTo(S, n) == UNION {[1..k -> S] : k \in 0..n}

Item(title, artists, id) == [title |-> title, artists |-> artists, id |-> id]
\* two catalog entries with the same display string, a near match, and an
\* entry without artists
ItemX1 == Item(<<"a", "b">>, <<<<"x">>>>, "id1")
ItemX2 == Item(<<"a", "b">>, <<<<"x">>>>, "id2")
ItemY == Item(<<"a", "b">>, <<<<"y">>>>, "id3")
ItemBare == Item(<<"a", "c">>, <<>>, "id4")
Items == {ItemX1, ItemX2, ItemY, ItemBare}

\* what the oracle may do: raise, answer the sentinel (bare or padded),
\* answer nothing, answer a string that is no candidate, or name a candidate
OracleOutcomes ==
  {OracleRaise, OracleText(NONE_STR), OracleText(<<" ">> \o NONE_STR \o <<" ">>),
   OracleText(<<>>), OracleText(<<"z", "z">>),
   OracleText(<<"a", "b", " ", "x">>), OracleText(<<"a", "b", " ", "y">>)}

(***************************************************************************)
(* URLs                                                                    *)
(***************************************************************************)

\* A URL is [scheme, host, path, query]; each part is an atom of the sets below.
Url(scheme, host, path, query) ==
  [scheme |-> scheme, host |-> host, path |-> path, query |-> query]

Urls ==
  {Url("https", "www.youtube.com", "/playlist", "list=PL1"),
   Url("https", "www.youtube.com", "/watch", ""),
   Url("https", "open.spotify.com", "/playlist/p1", ""),
   Url("https", "open.spotify.com", "/album/a1", ""),
   Url("https", "example.com", "/list", "id=1"),
   Url("https", "example.com", "/list", "next=spotify.com"),
   Url("https", "example.com", "/playlist/p1", "next=spotify.com"),
   Url("ftp", "music.youtube.com", "/playlist", "list=PL1")}

\* sig in part, for the parts above
Mentions(part, sig) ==
  \/ sig = "youtube" /\ part \in {"www.youtube.com", "music.youtube.com"}
  \/ sig = "spotify" /\ part \in {"open.spotify.com", "next=spotify.com"}

\* detect_platform(url): substring tests on the whole URL text
detect_platform(u) ==
  LET parts == {u.scheme, u.host, u.path, u.query}
  IN  IF \E p \in parts : Mentions(p, "youtube") THEN "youtube"
      ELSE IF \E p \in parts : Mentions(p, "spotify") THEN "spotify"
      ELSE "None"

\* extract_youtube_playlist_id(url): the list query parameter, or None
extract_youtube_playlist_id(u) ==
  IF u.query = "list=PL1" THEN "PL1" ELSE "None"

\* extract_spotify_playlist_id(url): what follows "playlist/" in the path, or None
extract_spotify_playlist_id(u) ==
  IF u.path = "/playlist/p1" THEN "p1" ELSE "None"

(***************************************************************************)
(* transfer_playlist, one step per external call                           *)
(***************************************************************************)


Targets == {"spotify", "youtube"}

Call(op, track) == [op |-> op, track |-> track]
CallsOf(names, track) == [i \in DOMAIN names |-> Call(names[i], track)]

TransferIdle ==
  /\ tpc = "idle"
  /\ url = Url("https", "example.com", "/list", "id=1")
  /\ target = "spotify"
  /\ tracks = <<>>
  /\ idx = 1
  /\ found = <<>>
  /\ uris = <<>>
  /\ missing = <<>>
  /\ calls = <<>>
  /\ added = <<>>
  /\ result = <<>>
  /\ error = "none"
  /\ via = "direct"
  /\ reply = <<>>

\* platform = detect_platform(url); if not platform: raise ValueError(...)
Detect(u) ==
  IF detect_platform(u) = "None"
  THEN tpc' = "failed" /\ error' = "UnsupportedUrl"
  ELSE tpc' = "detected" /\ UNCHANGED error

\* transfer_playlist(url, target) up to detect_platform
Start ==
  /\ tpc = "idle"
  /\ \E u \in Urls, t \in Targets :
       /\ url' = u
       /\ target' = t
       /\ Detect(u)
  /\ UNCHANGED <<tracks, idx, found, uris, missing, calls, added, result, via, reply>>
  /\ UNCHANGED <<resolveVars, rateVars, raceVars, cleanVars, matchVars, infoVars>>

\* ReadSource taking a failed read for an empty playlist
ReadSourceMut ==
  /\ tpc = "detected"
  /\ calls' = Append(calls, Call("read_source", 0))
  /\ \/ /\ error' = "SourceRead"
        /\ tracks' = <<>>
     \/ /\ (IF detect_platform(url) = "youtube"
            THEN extract_youtube_playlist_id(url)
            ELSE extract_spotify_playlist_id(url)) # "None"
        /\ \E ts \in SeqsUpTo(TrackRefs, MaxTracks) : tracks' = ts
        /\ UNCHANGED error
  /\ tpc' = IF target = "spotify" THEN "read" ELSE "resolving"
  /\ UNCHANGED <<url, target, idx, found, uris, missing, added, result, via, reply>>
  /\ UNCHANGED <<resolveVars, rateVars, raceVars, cleanVars, matchVars, infoVars>>

\* get_youtube_tracks / get_spotify_tracks on the extracted playlist id; the
\* id is passed on as extracted, None included, and a read of None only fails
ReadSource ==
  /\ tpc = "detected"
  /\ calls' = Append(calls, Call("read_source", 0))
  /\ \/ /\ tpc' = "failed"
        /\ error' = "SourceRead"
        /\ UNCHANGED tracks
     \/ /\ (IF detect_platform(url) = "youtube"
            THEN extract_youtube_playlist_id(url)
            ELSE extract_spotify_playlist_id(url)) # "None"
        /\ \E ts \in SeqsUpTo(TrackRefs, MaxTracks) : tracks' = ts
        /\ tpc' = IF target = "spotify" THEN "read" ELSE "resolving"
        /\ UNCHANGED error
  /\ UNCHANGED <<url, target, idx, found, uris, missing, added, result, via, reply>>
  /\ UNCHANGED <<resolveVars, rateVars, raceVars, cleanVars, matchVars, infoVars>>

\* user_id = sp.me()['id']
GetUser ==
  /\ tpc = "read"
  /\ calls' = Append(calls, Call("me", 0))
  /\ \/ tpc' = "user" /\ UNCHANGED error
     \/ tpc' = "failed" /\ error' = "Upstream"
  /\ UNCHANGED <<url, target, tracks, idx, found, uris, missing, added, result, via, reply>>
  /\ UNCHANGED <<resolveVars, rateVars, raceVars, cleanVars, matchVars, infoVars>>

\* CreatePlaylist trying the creation a second time when the first fails
CreatePlaylistTwice ==
  /\ tpc = "user"
  /\ \/ /\ calls' = Append(calls, Call("create_playlist", 0))
        /\ tpc' = "resolving"
        /\ UNCHANGED error
     \/ /\ calls' = calls \o <<Call("create_playlist", 0), Call("create_playlist", 0)>>
        /\ \/ tpc' = "resolving" /\ UNCHANGED error
           \/ tpc' = "failed" /\ error' = "PlaylistCreation"
  /\ UNCHANGED <<url, target, tracks, idx, found, uris, missing, added, result, via, reply>>
  /\ UNCHANGED <<resolveVars, rateVars, raceVars, cleanVars, matchVars, infoVars>>

\* new_playlist = create_spotify_playlist(user_id, playlist_title)
CreatePlaylist ==
  /\ tpc = "user"
  /\ calls' = Append(calls, Call("create_playlist", 0))
  /\ \/ tpc' = "resolving" /\ UNCHANGED error
     \/ tpc' = "failed" /\ error' = "PlaylistCreation"
  /\ UNCHANGED <<url, target, tracks, idx, found, uris, missing, added, result, via, reply>>
  /\ UNCHANGED <<resolveVars, rateVars, raceVars, cleanVars, matchVars, infoVars>>

\* Collect with missing.append outside the else branch
CollectMut(id) ==
  /\ found' = Append(found, id)
  /\ uris' = IF id # NoId THEN Append(uris, id) ELSE uris
  /\ missing' = Append(missing, Render(tracks[idx][1], tracks[idx][2]))
  /\ idx' = idx + 1
  /\ UNCHANGED tpc

\* Collect inserting at the front of both lists
CollectFront(id) ==
  /\ found' = Append(found, id)
  /\ IF id # NoId
     THEN uris' = <<id>> \o uris /\ UNCHANGED missing
     ELSE /\ missing' = <<Render(tracks[idx][1], tracks[idx][2])>> \o missing
          /\ UNCHANGED uris
  /\ idx' = idx + 1
  /\ UNCHANGED tpc

\* the loop body's bookkeeping for a search that returned id
Collect(id) ==
  /\ found' = Append(found, id)
  /\ IF id # NoId
     THEN uris' = Append(uris, id) /\ UNCHANGED missing
     ELSE /\ missing' = Append(missing, Render(tracks[idx][1], tracks[idx][2]))
          /\ UNCHANGED uris
  /\ idx' = idx + 1
  /\ UNCHANGED tpc

\* ResolveSpotify walking the tracks from the last to the first
ResolveSpotifyBackwards ==
  /\ tpc = "resolving"
  /\ target = "spotify"
  /\ idx <= Len(tracks)
  /\ \E scoped \in {SearchRaise, SearchOk(<<>>), SearchOk(<<ItemX1, ItemY>>)},
        titled \in {SearchOk(<<>>), SearchOk(<<ItemY>>)},
        oracle \in {OracleRaise, OracleText(NONE_STR)} :
       \E o \in {search_spotify(tracks[Len(tracks) + 1 - idx][1],
                                 tracks[Len(tracks) + 1 - idx][2], scoped, titled, oracle)} :
         /\ calls' = calls \o CallsOf(o.calls, Len(tracks) + 1 - idx)
         /\ Collect(o.id)
  /\ UNCHANGED <<url, target, tracks, added, result, error, via, reply>>
  /\ UNCHANGED <<resolveVars, rateVars, raceVars, cleanVars, matchVars, infoVars>>

\* for title, artist in tracks: uri = search_spotify(title, artist); ...
ResolveSpotify ==
  /\ tpc = "resolving"
  /\ target = "spotify"
  /\ idx <= Len(tracks)
  /\ \E scoped \in {SearchRaise, SearchOk(<<>>), SearchOk(<<ItemX1, ItemY>>)},
        titled \in {SearchOk(<<>>), SearchOk(<<ItemY>>)},
        oracle \in {OracleRaise, OracleText(NONE_STR)} :
       \E o \in {search_spotify(tracks[idx][1], tracks[idx][2], scoped, titled, oracle)} :
         /\ calls' = calls \o CallsOf(o.calls, idx)
         /\ Collect(o.id)
  /\ UNCHANGED <<url, target, tracks, added, result, error, via, reply>>
  /\ UNCHANGED <<resolveVars, rateVars, raceVars, cleanVars, matchVars, infoVars>>

\* for title, artist in tracks: vid = search_ytmusic(title, artist); ...
ResolveYoutube ==
  /\ tpc = "resolving"
  /\ target = "youtube"
  /\ idx <= Len(tracks)
  /\ \E answer \in {SearchRaise, SearchOk(<<>>), SearchOk(<<ItemY, ItemX1>>)},
        oracle \in {OracleRaise, OracleText(NONE_STR), OracleText(<<"z", "z">>),
                    OracleText(<<"a", "b", " ", "x">>)} :
       \E o \in {search_ytmusic(tracks[idx][1], tracks[idx][2], answer, oracle)} :
         /\ calls' = calls \o CallsOf(o.calls, idx)
         /\ IF o.raised
            THEN /\ tpc' = "failed"
                 /\ error' = "Search"
                 /\ UNCHANGED <<idx, found, uris, missing>>
            ELSE Collect(o.id) /\ UNCHANGED error
  /\ UNCHANGED <<url, target, tracks, added, result, via, reply>>
  /\ UNCHANGED <<resolveVars, rateVars, raceVars, cleanVars, matchVars, infoVars>>

\* AppendAndReturn without the "if uris" test
AppendAlways ==
  /\ tpc = "resolving"
  /\ target = "spotify"
  /\ idx > Len(tracks)
  /\ calls' = Append(calls, Call("add_items", 0))
  /\ added' = <<uris>>
  /\ \/ /\ tpc' = "done"
        /\ result' = <<[playlist_url |-> "spotify_url", missing |-> missing]>>
        /\ UNCHANGED error
     \/ /\ tpc' = "failed"
        /\ error' = "Append"
        /\ UNCHANGED result
  /\ UNCHANGED <<url, target, tracks, idx, found, uris, missing, via, reply>>
  /\ UNCHANGED <<resolveVars, rateVars, raceVars, cleanVars, matchVars, infoVars>>

\* AppendAndReturn with a failed playlist_add_items swallowed
AppendSwallow ==
  /\ tpc = "resolving"
  /\ target = "spotify"
  /\ idx > Len(tracks)
  /\ \/ /\ uris = <<>>
        /\ UNCHANGED <<calls, added>>
     \/ /\ uris # <<>>
        /\ calls' = Append(calls, Call("add_items", 0))
        /\ added' = <<uris>>
  /\ tpc' = "done"
  /\ result' = <<[playlist_url |-> "spotify_url", missing |-> missing]>>
  /\ \/ UNCHANGED error
     \/ uris # <<>> /\ error' = "Append"
  /\ UNCHANGED <<url, target, tracks, idx, found, uris, missing, via, reply>>
  /\ UNCHANGED <<resolveVars, rateVars, raceVars, cleanVars, matchVars, infoVars>>

\* if uris: sp.playlist_add_items(new_playlist['id'], uris); return {...}
AppendAndReturn ==
  /\ tpc = "resolving"
  /\ target = "spotify"
  /\ idx > Len(tracks)
  /\ \/ /\ uris = <<>>
        /\ tpc' = "done"
        /\ result' = <<[playlist_url |-> "spotify_url", missing |-> missing]>>
        /\ UNCHANGED <<calls, added, error>>
     \/ /\ uris # <<>>
        /\ calls' = Append(calls, Call("add_items", 0))
        /\ added' = <<uris>>
        /\ \/ /\ tpc' = "done"
              /\ result' = <<[playlist_url |-> "spotify_url", missing |-> missing]>>
              /\ UNCHANGED error
           \/ /\ tpc' = "failed"
              /\ error' = "Append"
              /\ UNCHANGED result
  /\ UNCHANGED <<url, target, tracks, idx, found, uris, missing, via, reply>>
  /\ UNCHANGED <<resolveVars, rateVars, raceVars, cleanVars, matchVars, infoVars>>

\* CreateYoutubePlaylist with a create_youtube_playlist that returns an id
CreateYoutubePlaylistMut ==
  /\ tpc = "resolving"
  /\ target = "youtube"
  /\ idx > Len(tracks)
  /\ tpc' = "done"
  /\ result' = <<[playlist_url |-> "youtube_url", missing |-> missing]>>
  /\ calls' = Append(calls, Call("create_playlist", 0))
  /\ UNCHANGED <<url, target, tracks, idx, found, uris, missing, added, error, via, reply>>
  /\ UNCHANGED <<resolveVars, rateVars, raceVars, cleanVars, matchVars, infoVars>>

\* create_youtube_playlist raises NotImplementedError
CreateYoutubePlaylist ==
  /\ tpc = "resolving"
  /\ target = "youtube"
  /\ idx > Len(tracks)
  /\ tpc' = "failed"
  /\ error' = "NotImplemented"
  /\ calls' = Append(calls, Call("create_playlist", 0))
  /\ UNCHANGED <<url, target, tracks, idx, found, uris, missing, added, result, via, reply>>
  /\ UNCHANGED <<resolveVars, rateVars, raceVars, cleanVars, matchVars, infoVars>>

TransferNext ==
  \/ Start
  \/ ReadSource
  \/ GetUser
  \/ CreatePlaylist
  \/ ResolveSpotify
  \/ ResolveYoutube
  \/ AppendAndReturn
  \/ CreateYoutubePlaylist

(***************************************************************************)
(* One resolution: search_ytmusic or search_spotify on drawn inputs        *)
(***************************************************************************)


ResolveInput(platform, title, artist, r1, r2, resp) ==
  [platform |-> platform, title |-> title, artist |-> artist,
   r1 |-> r1, r2 |-> r2, resp |-> resp]

Answers(n) == {SearchRaise} \cup {SearchOk(items) : items \in SeqsUpTo(Items, n)}

\* catalog answers longer than the SearchLimit candidates shown to the oracle:
\* ytmusic.search(query, filter="songs") is not capped by the caller
LongAnswers ==
  {SearchOk([i \in 1..(SearchLimit + 1) |-> IF i <= SearchLimit THEN ItemY ELSE r]) :
     r \in {ItemX1, ItemY}}

ResolveInputs ==
  {ResolveInput("ytmusic", t, a, r1, SearchOk(<<>>), resp) :
     t \in Titles, a \in Artists, r1 \in Answers(MaxResults) \cup LongAnswers,
     resp \in OracleOutcomes}
  \cup
  {ResolveInput("spotify", t, a, r1, r2, resp) :
     t \in Titles, a \in Artists, r1 \in Answers(MaxResults),
     r2 \in {SearchRaise, SearchOk(<<>>), SearchOk(<<ItemY, ItemX1>>)},
     resp \in OracleOutcomes}

ResolveIdle ==
  /\ rin = ResolveInput("ytmusic", <<"a", "b">>, <<"x">>, SearchOk(<<>>),
                        SearchOk(<<>>), OracleRaise)
  /\ rout = <<>>

RunYtmusic ==
  /\ rout = <<>>
  /\ rin.platform = "ytmusic"
  /\ rout' = <<search_ytmusic(rin.title, rin.artist, rin.r1, rin.resp)>>
  /\ UNCHANGED rin
  /\ UNCHANGED <<transferVars, rateVars, raceVars, cleanVars, matchVars, infoVars>>

RunSpotify ==
  /\ rout = <<>>
  /\ rin.platform = "spotify"
  /\ rout' = <<search_spotify(rin.title, rin.artist, rin.r1, rin.r2, rin.resp)>>
  /\ UNCHANGED rin
  /\ UNCHANGED <<transferVars, rateVars, raceVars, cleanVars, matchVars, infoVars>>

ResolveNext ==
  \/ RunYtmusic
  \/ RunSpotify

(***************************************************************************)
(* The rate governors: app.check_rate_limit and RateLimiter                *)
(***************************************************************************)

\* latest instant of the clock, in minutes
MaxTime == 3
\* largest max_requests argument
MaxLimit == 2
\* largest window_minutes argument
MaxWindow == 2
\* most admissions followed
MaxAdmitted == 3

\* config.RATE_LIMIT_REQUESTS and config.RATE_LIMIT_WINDOW_MINUTES defaults
RATE_LIMIT_REQUESTS == 3
RATE_LIMIT_WINDOW_MINUTES == 60

Users == {"u1", "u2"}
\* the users whose checks a run of the governors follows
Callers == {"u1"}


MSG_OK == "OK"
MSG_LIMIT == "Rate limit exceeded"
MSG_FALLBACK == "OK (fallback mode)"

\* the elements of a finite set of integers in increasing order
RECURSIVE SortedSeq(_)
SortedSeq(S) ==
  IF S = {} THEN <<>>
  ELSE LET m == CHOOSE x \in S : \A y \in S : x <= y
       IN  <<m>> \o SortedSeq(S \ {m})

\* [req for req in requests if req > window_start]
KeepLive(requests, now, w) == SelectSeq(requests, LAMBDA t : t > now - w)

\* max_requests or config.RATE_LIMIT_REQUESTS
EffectiveMax(m) == IF m = 0 THEN RATE_LIMIT_REQUESTS ELSE m
\* window_minutes or config.RATE_LIMIT_WINDOW_MINUTES
EffectiveWindow(w) == IF w = 0 THEN RATE_LIMIT_WINDOW_MINUTES ELSE w

NoCheck ==
  [user |-> "none", t |-> 0, path |-> "none", allowed |-> FALSE, msg |-> "none",
   count |-> 0, before |-> <<>>, after |-> <<>>]

Check(user, t, path, allowed, msg, count, before, after) ==
  [user |-> user, t |-> t, path |-> path, allowed |-> allowed, msg |-> msg,
   count |-> count, before |-> before, after |-> after]

\* the ghost record of a finished check; admissions are followed up to MaxAdmitted
Record(c) ==
  /\ c.allowed => Len(admitted) < MaxAdmitted
  /\ last' = c
  /\ admitted' = IF c.allowed
                 THEN Append(admitted, [user |-> c.user, t |-> c.t, path |-> c.path])
                 ELSE admitted

EmptyZ == [members |-> {}, exp |-> 0]
EmptyKey == [val |-> <<>>, exp |-> 0]

RateIdle ==
  /\ clock = 0
  /\ impl = "app"
  /\ max_requests = 1
  /\ window_minutes = 1
  /\ redis_client = FALSE
  /\ user_requests = [u \in Users |-> <<>>]
  /\ zset = [u \in Users |-> EmptyZ]
  /\ fbkey = [u \in Users |-> EmptyKey]
  /\ admitted = <<>>
  /\ last = NoCheck

\* the process starts: user_requests is empty, RateLimiter() has run _connect
RateInit ==
  /\ clock = 0
  /\ impl \in {"app", "limiter"}
  /\ max_requests \in 1..MaxLimit
  /\ window_minutes \in 1..MaxWindow
  /\ redis_client \in (IF impl = "limiter" THEN BOOLEAN ELSE {FALSE})
  /\ user_requests = [u \in Users |-> <<>>]
  /\ zset = [u \in Users |-> EmptyZ]
  /\ fbkey = [u \in Users |-> EmptyKey]
  /\ admitted = <<>>
  /\ last = NoCheck

Tick ==
  /\ clock < MaxTime
  /\ clock' = clock + 1
  /\ UNCHANGED <<impl, max_requests, window_minutes, redis_client, user_requests,
                 zset, fbkey, admitted, last>>
  /\ UNCHANGED <<transferVars, resolveVars, raceVars, cleanVars, matchVars, infoVars>>

\* a check that keeps one list for all users
AppCheckShared(u) ==
  LET now == clock
      kept == KeepLive(user_requests[u], now, window_minutes)
  IN  /\ impl = "app"
      /\ IF Len(kept) >= max_requests
         THEN /\ user_requests' = [v \in Users |-> kept]
              /\ Record(Check(u, now, "app", FALSE, MSG_LIMIT, Len(kept),
                              user_requests[u], kept))
         ELSE /\ user_requests' = [v \in Users |-> Append(kept, now)]
              /\ Record(Check(u, now, "app", TRUE, MSG_OK, Len(kept),
                              user_requests[u], Append(kept, now)))
      /\ UNCHANGED <<clock, impl, max_requests, window_minutes, redis_client,
                     zset, fbkey>>
      /\ UNCHANGED <<transferVars, resolveVars, raceVars, cleanVars, matchVars, infoVars>>

\* app.check_rate_limit(max_requests, window_minutes) for the session's user
AppCheck(u) ==
  LET now == clock
      kept == KeepLive(user_requests[u], now, window_minutes)
  IN  /\ impl = "app"
      /\ IF Len(kept) >= max_requests
         THEN /\ user_requests' = [user_requests EXCEPT ![u] = kept]
              /\ Record(Check(u, now, "app", FALSE, MSG_LIMIT, Len(kept),
                              user_requests[u], kept))
         ELSE /\ user_requests' = [user_requests EXCEPT ![u] = Append(kept, now)]
              /\ Record(Check(u, now, "app", TRUE, MSG_OK, Len(kept),
                              user_requests[u], Append(kept, now)))
      /\ UNCHANGED <<clock, impl, max_requests, window_minutes, redis_client,
                     zset, fbkey>>
      /\ UNCHANGED <<transferVars, resolveVars, raceVars, cleanVars, matchVars, infoVars>>

\* the members of the sorted set a command sees at instant now
ZLive(z, now) == IF now >= z.exp THEN {} ELSE z.members
\* the list redis_client.get(key) sees at instant now ([] when the key is absent)
KeyLive(k, now) == IF now >= k.exp THEN <<>> ELSE k.val

\* pipe.execute() of _check_redis_rate_limit: zremrangebyscore(key, 0, window_start),
\* zcard(key), zadd(key, {str(now): now}), expire(key, window); str(now) names one
\* member per instant; at is the instant the store executes the transaction
PipelineExec(z, now, at, w) ==
  LET kept == {t \in ZLive(z, at) : ~(0 <= t /\ t <= now - w)}
  IN  [z |-> [members |-> kept \cup {now}, exp |-> at + w],
       count |-> Cardinality(kept)]

\* the answer of the ultimate fallback of _check_fallback_rate_limit
FailOpenMut(u, now) == Check(u, now, "failopen", TRUE, MSG_OK, 0, <<>>, <<>>)
FailOpen(u, now) == Check(u, now, "failopen", TRUE, MSG_FALLBACK, 0, <<>>, <<>>)

\* RateLimiter.check_rate_limit(user_id, max_requests, window_minutes); pipeOK,
\* getOK and setexOK say whether the store answers pipe.execute(), get and setex
LimiterCheck(u, pipeOK, getOK, setexOK) ==
  LET now == clock
      max == EffectiveMax(max_requests)
      w == EffectiveWindow(window_minutes)
      p == PipelineExec(zset[u], now, now, w)
      requests == KeepLive(KeyLive(fbkey[u], now), now, w)
  IN  /\ impl = "limiter"
      /\ IF redis_client /\ pipeOK
         THEN /\ zset' = [zset EXCEPT ![u] = p.z]
              /\ UNCHANGED fbkey
              /\ Record(Check(u, now, "primary", p.count < max,
                              IF p.count >= max THEN MSG_LIMIT ELSE MSG_OK, p.count,
                              SortedSeq(ZLive(zset[u], now)), SortedSeq(p.z.members)))
         ELSE IF redis_client /\ getOK
         THEN IF Len(requests) >= max
              THEN /\ UNCHANGED <<zset, fbkey>>
                   /\ Record(Check(u, now, "degraded", FALSE, MSG_LIMIT, Len(requests),
                                   KeyLive(fbkey[u], now), KeyLive(fbkey[u], now)))
              ELSE IF setexOK
              THEN /\ fbkey' = [fbkey EXCEPT
                                  ![u] = [val |-> Append(requests, now), exp |-> now + w]]
                   /\ UNCHANGED zset
                   /\ Record(Check(u, now, "degraded", TRUE, MSG_OK, Len(requests),
                                   KeyLive(fbkey[u], now), Append(requests, now)))
              ELSE /\ UNCHANGED <<zset, fbkey>>
                   /\ Record(FailOpen(u, now))
         ELSE /\ UNCHANGED <<zset, fbkey>>
              /\ Record(FailOpen(u, now))
      /\ UNCHANGED <<clock, impl, max_requests, window_minutes, redis_client,
                     user_requests>>
      /\ UNCHANGED <<transferVars, resolveVars, raceVars, cleanVars, matchVars, infoVars>>

RateNext ==
  \/ Tick
  \/ \E u \in Callers : AppCheck(u)
  \/ \E u \in Callers, pipeOK \in BOOLEAN, getOK \in BOOLEAN, setexOK \in BOOLEAN :
       LimiterCheck(u, pipeOK, getOK, setexOK)

\* the arguments a caller may pass: 0, which "or" treats like the omitted None,
\* and 1
ArgsInit ==
  /\ clock = 0
  /\ impl = "limiter"
  /\ max_requests \in 0..1
  /\ window_minutes \in 0..1
  /\ redis_client \in BOOLEAN
  /\ user_requests = [u \in Users |-> <<>>]
  /\ zset = [u \in Users |-> EmptyZ]
  /\ fbkey = [u \in Users |-> EmptyKey]
  /\ admitted = <<>>
  /\ last = NoCheck

ArgsNext ==
  \/ Tick
  \/ \E u \in Callers, pipeOK \in BOOLEAN, getOK \in BOOLEAN, setexOK \in BOOLEAN :
       LimiterCheck(u, pipeOK, getOK, setexOK)

\* two users sharing one process and one store: max_requests 1, and the store
\* answers get and setex whenever the pipeline fails
IsoInit ==
  /\ clock = 0
  /\ impl \in {"app", "limiter"}
  /\ max_requests = 1
  /\ window_minutes \in 1..MaxWindow
  /\ redis_client = (impl = "limiter")
  /\ user_requests = [u \in Users |-> <<>>]
  /\ zset = [u \in Users |-> EmptyZ]
  /\ fbkey = [u \in Users |-> EmptyKey]
  /\ admitted = <<>>
  /\ last = NoCheck

IsoNext ==
  \/ Tick
  \/ \E u \in Users : AppCheck(u)
  \/ \E u \in Users, pipeOK \in BOOLEAN :
       LimiterCheck(u, pipeOK, TRUE, TRUE)


(***************************************************************************)
(* Two concurrent RateLimiter.check_rate_limit calls, one step per store   *)
(* command                                                                 *)
(***************************************************************************)

Procs == {1, 2}
RaceUser == "u1"

NoResult == [path |-> "none", allowed |-> FALSE, msg |-> "none"]
Result(path, allowed, msg) == [path |-> path, allowed |-> allowed, msg |-> msg]

RaceIdle ==
  /\ rpc = [p \in Procs |-> "start"]
  /\ rnow = [p \in Procs |-> 0]
  /\ rreq = [p \in Procs |-> <<>>]
  /\ rres = [p \in Procs |-> NoResult]

\* The user has max_requests - 1 admissions on record, made at the instants
\* 0 .. max_requests - 2 on either path, all of them live while the calls run.
RaceInit ==
  /\ max_requests \in 1..MaxLimit
  /\ window_minutes = max_requests + 1
  /\ clock = max_requests - 1
  /\ impl = "limiter"
  /\ redis_client = TRUE
  /\ user_requests = [u \in Users |-> <<>>]
  /\ zset = [u \in Users |->
               IF u = RaceUser /\ max_requests > 1
               THEN [members |-> 0..(max_requests - 2),
                     exp |-> max_requests - 2 + window_minutes]
               ELSE EmptyZ]
  /\ fbkey = [u \in Users |->
                IF u = RaceUser /\ max_requests > 1
                THEN [val |-> SortedSeq(0..(max_requests - 2)),
                      exp |-> max_requests - 2 + window_minutes]
                ELSE EmptyKey]
  /\ admitted = <<>>
  /\ last = NoCheck
  /\ RaceIdle

RaceFrame ==
  UNCHANGED <<impl, max_requests, window_minutes, redis_client, user_requests,
              admitted, last, transferVars, resolveVars, cleanVars, matchVars, infoVars>>

\* the clock advances while the recorded admissions stay inside the window
RaceTick ==
  /\ clock < max_requests
  /\ clock' = clock + 1
  /\ UNCHANGED <<zset, fbkey, raceVars>>
  /\ RaceFrame

\* check_rate_limit up to now = time.time() of _check_redis_rate_limit
BeginCheck(p) ==
  /\ rpc[p] = "start"
  /\ rpc' = [rpc EXCEPT ![p] = "pipe"]
  /\ rnow' = [rnow EXCEPT ![p] = clock]
  /\ UNCHANGED <<clock, zset, fbkey, rreq, rres>>
  /\ RaceFrame

\* results = pipe.execute() and the decision on results[1], or the exception
ExecPipeline(p, ok) ==
  LET x == PipelineExec(zset[RaceUser], rnow[p], clock, window_minutes)
  IN  /\ rpc[p] = "pipe"
      /\ IF ok
         THEN /\ zset' = [zset EXCEPT ![RaceUser] = x.z]
              /\ rres' = [rres EXCEPT
                            ![p] = Result("primary", x.count < max_requests,
                                          IF x.count >= max_requests
                                          THEN MSG_LIMIT ELSE MSG_OK)]
              /\ rpc' = [rpc EXCEPT ![p] = "done"]
         ELSE /\ rpc' = [rpc EXCEPT ![p] = "get"]
              /\ UNCHANGED <<zset, rres>>
      /\ UNCHANGED <<clock, fbkey, rnow, rreq>>
      /\ RaceFrame

\* data = self.redis_client.get(key), the filter and the decision
GetKey(p, ok) ==
  LET requests == KeepLive(KeyLive(fbkey[RaceUser], clock), clock, window_minutes)
  IN  /\ rpc[p] = "get"
      /\ IF ~ok
         THEN /\ rres' = [rres EXCEPT ![p] = Result("failopen", TRUE, MSG_FALLBACK)]
              /\ rpc' = [rpc EXCEPT ![p] = "done"]
              /\ UNCHANGED <<rnow, rreq>>
         ELSE IF Len(requests) >= max_requests
         THEN /\ rres' = [rres EXCEPT ![p] = Result("degraded", FALSE, MSG_LIMIT)]
              /\ rpc' = [rpc EXCEPT ![p] = "done"]
              /\ UNCHANGED <<rnow, rreq>>
         ELSE /\ rnow' = [rnow EXCEPT ![p] = clock]
              /\ rreq' = [rreq EXCEPT ![p] = Append(requests, clock)]
              /\ rpc' = [rpc EXCEPT ![p] = "setex"]
              /\ UNCHANGED rres
      /\ UNCHANGED <<clock, zset, fbkey>>
      /\ RaceFrame

\* self.redis_client.setex(key, window, json.dumps(requests)) and the return
SetKey(p, ok) ==
  /\ rpc[p] = "setex"
  /\ IF ok
     THEN /\ fbkey' = [fbkey EXCEPT
                         ![RaceUser] = [val |-> rreq[p], exp |-> clock + window_minutes]]
          /\ rres' = [rres EXCEPT ![p] = Result("degraded", TRUE, MSG_OK)]
     ELSE /\ rres' = [rres EXCEPT ![p] = Result("failopen", TRUE, MSG_FALLBACK)]
          /\ UNCHANGED fbkey
  /\ rpc' = [rpc EXCEPT ![p] = "done"]
  /\ UNCHANGED <<clock, zset, rnow, rreq>>
  /\ RaceFrame

RaceNext ==
  \/ RaceTick
  \/ \E p \in Procs : BeginCheck(p)
  \/ \E p \in Procs, ok \in BOOLEAN : ExecPipeline(p, ok)
  \/ \E p \in Procs, ok \in BOOLEAN : GetKey(p, ok)
  \/ \E p \in Procs, ok \in BOOLEAN : SetKey(p, ok)

(***************************************************************************)
(* clean_title                                                             *)
(***************************************************************************)

\* str characters \s matches, among those of the model's alphabet
Whitespace == {" ", "\t", "\n"}

\* re.sub(r"[\(\[].*?[\)\]]", "", title): from the left, an opener and the
\* shortest stretch up to a closer go; "." does not cross a line break
RECURSIVE RemoveBracketed(_, _)
RemoveBracketed(s, i) ==
  IF i > Len(s) THEN <<>>
  ELSE LET closers == {j \in (i + 1)..Len(s) :
                         /\ s[j] \in {")", "]"}
                         /\ \A k \in (i + 1)..(j - 1) : s[k] # "\n"}
       IN  IF s[i] \in {"(", "["} /\ closers # {}
           THEN RemoveBracketed(s, (CHOOSE j \in closers : \A m \in closers : j <= m) + 1)
           ELSE <<s[i]>> \o RemoveBracketed(s, i + 1)

\* the alternatives of the second pattern, in its order
NoiseTokens ==
  <<<<"o", "f", "f", "i", "c", "i", "a", "l", " ", "v", "i", "d", "e", "o">>,
    <<"m", "u", "s", "i", "c", " ", "v", "i", "d", "e", "o">>,
    <<"l", "y", "r", "i", "c", "s">>,
    <<"a", "u", "d", "i", "o">>>>

\* flags=re.I, for the letters of the model's alphabet
Lower(c) ==
  CASE c = "A" -> "a"
    [] c = "D" -> "d"
    [] c = "I" -> "i"
    [] c = "O" -> "o"
    [] c = "U" -> "u"
    [] OTHER -> c

\* the token tok matches s at index i
MatchesAt(s, i, tok) ==
  /\ i + Len(tok) - 1 <= Len(s)
  /\ \A k \in DOMAIN tok : Lower(s[i + k - 1]) = tok[k]

\* re.sub(r"(official video|music video|lyrics|audio)", "", title, flags=re.I):
\* from the left, the first alternative that matches at the index goes
RECURSIVE RemoveNoise(_, _)
RemoveNoise(s, i) ==
  IF i > Len(s) THEN <<>>
  ELSE LET fits == {n \in DOMAIN NoiseTokens : MatchesAt(s, i, NoiseTokens[n])}
       IN  IF fits # {}
           THEN RemoveNoise(s, i + Len(NoiseTokens[CHOOSE n \in fits : \A m \in fits : n <= m]))
           ELSE <<s[i]>> \o RemoveNoise(s, i + 1)

\* re.sub(r"\s+", " ", title): every run of whitespace becomes one space
RECURSIVE CollapseSpace(_, _)
CollapseSpace(s, i) ==
  IF i > Len(s) THEN <<>>
  ELSE IF s[i] \in Whitespace
  THEN IF i > 1 /\ s[i - 1] \in Whitespace THEN CollapseSpace(s, i + 1)
       ELSE <<" ">> \o CollapseSpace(s, i + 1)
  ELSE <<s[i]>> \o CollapseSpace(s, i + 1)

\* clean_title(title)
clean_title(title) ==
  Strip(CollapseSpace(RemoveNoise(RemoveBracketed(title, 1), 1), 1))

\* most pieces a drawn title is put together from
MaxPieces == 3

\* the pieces: noise tokens whole, in halves and in capitals, brackets,
\* whitespace and a letter
Pieces ==
  {<<"a", "u", "d", "i", "o">>,
   <<"A", "u", "d", "i", "o">>,
   <<"l", "y", "r", "i", "c", "s">>,
   <<"l", "y">>,
   <<"r", "i", "c", "s">>,
   <<"o", "f", "f", "i", "c", "i", "a", "l">>,
   <<"m", "u", "s", "i", "c">>,
   <<"v", "i", "d", "e", "o">>,
   <<" ">>,
   <<"\t">>,
   <<"(">>,
   <<")">>,
   <<"[">>,
   <<"]">>,
   <<"x">>}

RECURSIVE Concat(_)
Concat(ps) == IF ps = <<>> THEN <<>> ELSE Head(ps) \o Concat(Tail(ps))

CleanInputs == {Concat(ps) : ps \in SeqsUpTo(Pieces, MaxPieces)}

CleanIdle ==
  /\ cin = <<>>
  /\ cout = <<>>

\* clean_title applied to the drawn title, then to what it returned
CleanTitle ==
  /\ Len(cout) < 2
  /\ cout' = Append(cout, clean_title(IF cout = <<>> THEN cin ELSE cout[Len(cout)]))
  /\ UNCHANGED cin
  /\ UNCHANGED <<transferVars, resolveVars, rateVars, raceVars, matchVars, infoVars>>

(***************************************************************************)
(* fallback_match on its own                                               *)
(***************************************************************************)

MatchIdle ==
  /\ mq = <<>>
  /\ mc = <<>>
  /\ mout = <<>>

\* longest candidate list drawn
MaxCands == 2

\* a ten-character query and a short one
MatchQueries == {<<"a", "a", "a", "a", "a", "a", "a", "b", "b", "b">>, <<"a", "b">>}

\* candidates at similarity 1, 0.9, 0.7 and 0.6 to the long query, and a short one
MatchCands ==
  {<<"a", "a", "a", "a", "a", "a", "a", "b", "b", "b">>,
   <<"a", "a", "a", "a", "a", "a", "a", "b", "b", "x">>,
   <<"a", "a", "a", "a", "a", "a", "a", "x", "x", "x">>,
   <<"a", "a", "a", "a", "a", "a", "x", "x", "x", "x">>,
   <<"a", "b">>}

\* fallback_match(query, candidates) on the drawn inputs
RunMatch ==
  /\ mout = <<>>
  /\ mout' = <<fallback_match(mq, mc)>>
  /\ UNCHANGED <<mq, mc>>
  /\ UNCHANGED <<transferVars, resolveVars, rateVars, raceVars, cleanVars, infoVars>>

(***************************************************************************)
(* RateLimiter.get_rate_limit_info                                         *)
(***************************************************************************)

\* the dict get_rate_limit_info returns, with the user asked about, the instant
\* of the call and the user's keys as they were when it returned
Info(user, t, ok, current, seen) ==
  [user |-> user, t |-> t, ok |-> ok, current_requests |-> current,
   max_requests |-> RATE_LIMIT_REQUESTS,
   remaining |-> IF RATE_LIMIT_REQUESTS - current > 0
                 THEN RATE_LIMIT_REQUESTS - current ELSE 0,
   window_minutes |-> RATE_LIMIT_WINDOW_MINUTES,
   reset_time |-> t + RATE_LIMIT_WINDOW_MINUTES, seen |-> seen]

NoInfo ==
  [user |-> "none", t |-> 0, ok |-> FALSE, current_requests |-> 0, max_requests |-> 0,
   remaining |-> 0, window_minutes |-> 0, reset_time |-> 0,
   seen |-> [z |-> EmptyZ, k |-> EmptyKey]]

InfoIdle == info = NoInfo

\* redis_client.zcount(key, window_start, now): both ends inclusive
ZCount(z, lo, hi, now) == Cardinality({s \in ZLive(z, now) : lo <= s /\ s <= hi})

\* the sorted sets a process may find in the store when it starts: admissions of
\* an earlier run, the key expiring a window after the latest of them
Earlier == {{}, {0}, {1, 2}, {0, 1, 2}}
StoredZ(S) ==
  IF S = {} THEN EmptyZ
  ELSE [members |-> S,
        exp |-> (CHOOSE m \in S : \A s \in S : s <= m) + RATE_LIMIT_WINDOW_MINUTES]

\* the last instant followed: one past the window of the earliest admission
InfoEnd == RATE_LIMIT_WINDOW_MINUTES + 1

\* the limiter is called with the configured defaults, close to the end of the
\* window of the stored admissions
InfoInit ==
  /\ clock = RATE_LIMIT_WINDOW_MINUTES - 1
  /\ impl = "limiter"
  /\ max_requests = 0
  /\ window_minutes = 0
  /\ redis_client \in BOOLEAN
  /\ user_requests = [u \in Users |-> <<>>]
  /\ \E S \in Earlier : zset = [u \in Users |-> IF u \in Callers THEN StoredZ(S) ELSE EmptyZ]
  /\ fbkey = [u \in Users |-> EmptyKey]
  /\ admitted = <<>>
  /\ last = NoCheck
  /\ info = NoInfo

InfoTick ==
  /\ clock < InfoEnd
  /\ clock' = clock + 1
  /\ UNCHANGED <<impl, max_requests, window_minutes, redis_client, user_requests,
                 zset, fbkey, admitted, last>>
  /\ UNCHANGED <<transferVars, resolveVars, raceVars, cleanVars, matchVars, infoVars>>

\* RateLimiter.get_rate_limit_info(user_id); ok says whether the store answers zcount
GetInfo(u, ok) ==
  LET now == clock
      window_start == now - RATE_LIMIT_WINDOW_MINUTES
  IN  /\ impl = "limiter"
      /\ info' = IF redis_client /\ ok
                 THEN Info(u, now, TRUE, ZCount(zset[u], window_start, now, now),
                           [z |-> zset[u], k |-> fbkey[u]])
                 ELSE Info(u, now, FALSE, 0, [z |-> zset[u], k |-> fbkey[u]])
      /\ UNCHANGED <<transferVars, resolveVars, rateVars, raceVars, cleanVars, matchVars>>

InfoNext ==
  \/ InfoTick
  \/ \E u \in Callers, ok \in BOOLEAN : GetInfo(u, ok)
  \/ \E u \in Callers, pipeOK \in BOOLEAN, getOK \in BOOLEAN, setexOK \in BOOLEAN :
       LimiterCheck(u, pipeOK, getOK, setexOK)

(***************************************************************************)
(* safe_transfer_playlist: rate check, URL validation, transfer, reply     *)
(***************************************************************************)

\* the defaults of app.check_rate_limit, which the wrapper calls bare
APP_MAX_REQUESTS == 3
APP_WINDOW_MINUTES == 60
\* st.session_state.get('user_id', 'anonymous')
SessionUser == "u1"

MSG_SCHEME == "Invalid URL scheme"
MSG_PLATFORM == "Unsupported platform"
MSG_VALID == "Valid"
MSG_TRANSFER_FAILED == "Transfer failed. Please try again."

\* validate_playlist_url(url) for the URLs of Urls, which are non-empty strings
\* shorter than 500 characters: the scheme test, then detect_platform
validate_playlist_url(u) ==
  IF u.scheme \notin {"http", "https"} THEN <<FALSE, MSG_SCHEME>>
  ELSE IF detect_platform(u) = "None" THEN <<FALSE, MSG_PLATFORM>>
  ELSE <<TRUE, MSG_VALID>>

ErrorReply(msg) == [kind |-> "error", text |-> msg, value |-> <<>>]
ResultReply(r) == [kind |-> "result", text |-> "", value |-> <<r>>]

\* the session as a request finds it: no request on record, or three made at
\* the current instant
SessionInit ==
  /\ clock = 0
  /\ impl = "app"
  /\ max_requests = APP_MAX_REQUESTS
  /\ window_minutes = APP_WINDOW_MINUTES
  /\ redis_client = FALSE
  /\ \E seen \in {<<>>, <<0, 0, 0>>} :
       user_requests = [u \in Users |-> IF u = SessionUser THEN seen ELSE <<>>]
  /\ zset = [u \in Users |-> EmptyZ]
  /\ fbkey = [u \in Users |-> EmptyKey]
  /\ admitted = <<>>
  /\ last = NoCheck

\* SafeStart validating the URL before it consults the governor
SafeStartValidateFirst ==
  /\ tpc = "idle"
  /\ via' = "safe"
  /\ \E u \in Urls, t \in Targets :
       LET now == clock
           kept == KeepLive(user_requests[SessionUser], now, window_minutes)
       IN  /\ url' = u
           /\ target' = t
           /\ IF ~validate_playlist_url(u)[1]
              THEN /\ tpc' = "rejected"
                   /\ reply' = <<ErrorReply(validate_playlist_url(u)[2])>>
                   /\ UNCHANGED <<error, user_requests, last, admitted>>
              ELSE IF Len(kept) >= max_requests
              THEN /\ user_requests' = [user_requests EXCEPT ![SessionUser] = kept]
                   /\ Record(Check(SessionUser, now, "app", FALSE, MSG_LIMIT, Len(kept),
                                   user_requests[SessionUser], kept))
                   /\ tpc' = "rejected"
                   /\ reply' = <<ErrorReply(MSG_LIMIT)>>
                   /\ UNCHANGED error
              ELSE /\ user_requests' =
                        [user_requests EXCEPT ![SessionUser] = Append(kept, now)]
                   /\ Record(Check(SessionUser, now, "app", TRUE, MSG_OK, Len(kept),
                                   user_requests[SessionUser], Append(kept, now)))
                   /\ Detect(u)
                   /\ UNCHANGED reply
  /\ UNCHANGED <<tracks, idx, found, uris, missing, calls, added, result>>
  /\ UNCHANGED <<clock, impl, max_requests, window_minutes, redis_client, zset, fbkey>>
  /\ UNCHANGED <<resolveVars, raceVars, cleanVars, matchVars, infoVars>>

\* safe_transfer_playlist(url, target) up to the first call of transfer_playlist
SafeStart ==
  /\ tpc = "idle"
  /\ via' = "safe"
  /\ \E u \in Urls, t \in Targets :
       LET now == clock
           kept == KeepLive(user_requests[SessionUser], now, window_minutes)
       IN  /\ url' = u
           /\ target' = t
           /\ IF Len(kept) >= max_requests
              THEN /\ user_requests' = [user_requests EXCEPT ![SessionUser] = kept]
                   /\ Record(Check(SessionUser, now, "app", FALSE, MSG_LIMIT, Len(kept),
                                   user_requests[SessionUser], kept))
                   /\ tpc' = "rejected"
                   /\ reply' = <<ErrorReply(MSG_LIMIT)>>
                   /\ UNCHANGED error
              ELSE /\ user_requests' =
                        [user_requests EXCEPT ![SessionUser] = Append(kept, now)]
                   /\ Record(Check(SessionUser, now, "app", TRUE, MSG_OK, Len(kept),
                                   user_requests[SessionUser], Append(kept, now)))
                   /\ IF ~validate_playlist_url(u)[1]
                      THEN /\ tpc' = "rejected"
                           /\ reply' = <<ErrorReply(validate_playlist_url(u)[2])>>
                           /\ UNCHANGED error
                      ELSE Detect(u) /\ UNCHANGED reply
  /\ UNCHANGED <<tracks, idx, found, uris, missing, calls, added, result>>
  /\ UNCHANGED <<clock, impl, max_requests, window_minutes, redis_client, zset, fbkey>>
  /\ UNCHANGED <<resolveVars, raceVars, cleanVars, matchVars, infoVars>>

\* return result, or the except branch: {"error": "Transfer failed. ..."}
SafeReturn ==
  /\ via = "safe"
  /\ reply = <<>>
  /\ tpc \in {"done", "failed"}
  /\ reply' = IF tpc = "done" THEN <<ResultReply(result[1])>>
               ELSE <<ErrorReply(MSG_TRANSFER_FAILED)>>
  /\ UNCHANGED <<tpc, url, target, tracks, idx, found, uris, missing, calls, added,
                 result, error, via>>
  /\ UNCHANGED <<resolveVars, rateVars, raceVars, cleanVars, matchVars, infoVars>>

(***************************************************************************)
(* Specifications                                                          *)
(***************************************************************************)

\* one transfer, entered through transfer_playlist or through the wrapper
Init == TransferIdle /\ ResolveIdle /\ SessionInit /\ RaceIdle /\ CleanIdle /\ MatchIdle /\ InfoIdle
Next == TransferNext \/ SafeStart \/ SafeReturn
Spec == Init /\ [][Next]_vars

\* one search on drawn inputs
InitResolve ==
  /\ TransferIdle /\ rin \in ResolveInputs /\ rout = <<>>
  /\ RateIdle /\ RaceIdle /\ CleanIdle /\ MatchIdle /\ InfoIdle
NextResolve == ResolveNext
SpecResolve == InitResolve /\ [][NextResolve]_vars

\* a sequence of admission checks at non-decreasing instants
InitRate == TransferIdle /\ ResolveIdle /\ RateInit /\ RaceIdle /\ CleanIdle /\ MatchIdle /\ InfoIdle
NextRate == RateNext
SpecRate == InitRate /\ [][NextRate]_vars
\* RateLimiter.check_rate_limit called with arguments that may be 0
InitArgs == TransferIdle /\ ResolveIdle /\ ArgsInit /\ RaceIdle /\ CleanIdle /\ MatchIdle /\ InfoIdle
NextArgs == ArgsNext
SpecArgs == InitArgs /\ [][NextArgs]_vars
\* get_rate_limit_info between the checks of one user
InitInfo == TransferIdle /\ ResolveIdle /\ InfoInit /\ RaceIdle /\ CleanIdle /\ MatchIdle
NextInfo == InfoNext
SpecInfo == InitInfo /\ [][NextInfo]_vars
\* the checks of two users interleaved
InitIso == TransferIdle /\ ResolveIdle /\ IsoInit /\ RaceIdle /\ CleanIdle /\ MatchIdle /\ InfoIdle
NextIso == IsoNext
SpecIso == InitIso /\ [][NextIso]_vars
\* two concurrent checks of one user at the boundary of the limit
InitRace == TransferIdle /\ ResolveIdle /\ RaceInit /\ CleanIdle /\ MatchIdle /\ InfoIdle
NextRace == RaceNext
SpecRace == InitRace /\ [][NextRace]_vars
\* clean_title on a drawn title, applied twice
InitClean ==
  /\ TransferIdle /\ ResolveIdle /\ RateIdle /\ RaceIdle /\ MatchIdle /\ InfoIdle
  /\ cin \in CleanInputs /\ cout = <<>>
NextClean == CleanTitle
SpecClean == InitClean /\ [][NextClean]_vars
\* fallback_match on a drawn query and candidate list
InitMatch ==
  /\ TransferIdle /\ ResolveIdle /\ RateIdle /\ RaceIdle /\ CleanIdle /\ InfoIdle
  /\ mq \in MatchQueries /\ mc \in SeqsUpTo(MatchCands, MaxCands) /\ mout = <<>>
NextMatch == RunMatch
SpecMatch == InitMatch /\ [][NextMatch]_vars

(***************************************************************************)
(* Properties                                                              *)
(***************************************************************************)

\* the elements of s[1..n], in order, at the indices where keep is TRUE
RECURSIVE Pick(_, _, _)
Pick(s, n, keep) ==
  IF n = 0 THEN <<>>
  ELSE IF keep[n] THEN Append(Pick(s, n - 1, keep), s[n]) ELSE Pick(s, n - 1, keep)

\* the ids passed to playlist_add_items, <<>> when it was not called
AddedIds == IF added = <<>> THEN <<>> ELSE added[1]

\* C1: a transfer to Spotify that returns a result accounts for every source
\* track once: len(missing) plus the number of ids passed to playlist_add_items
\* (0 when it was not called) is the number of source tracks.
C1_Conservation ==
  (tpc = "done" /\ target = "spotify")
    => Len(result[1].missing) + Len(AddedIds) = Len(tracks)

C1_Witness ==
  /\ tpc = "done"
  /\ target = "spotify"
  /\ Len(tracks) = 2
  /\ Len(result[1].missing) = 1
  /\ Len(AddedIds) = 1

\* C2: missing is the source-order subsequence of the tracks whose search
\* returned no id, each as "title - artist", and the ids appended are the
\* source-order subsequence of the ids the searches returned.
\* It holds of both loops after every iteration (the YouTube loop hands its
\* ids to create_youtube_playlist), and of the result a Spotify transfer returns.
C2_OrderedPartition ==
  LET n == Len(found)
      rendered == [i \in 1..n |-> tracks[i][1] \o <<" ", "-", " ">> \o tracks[i][2]]
  IN  /\ missing = Pick(rendered, n, [i \in 1..n |-> found[i] = NoId])
      /\ uris = Pick(found, n, [i \in 1..n |-> found[i] # NoId])
      /\ tpc = "done" =>
           /\ n = Len(tracks)
           /\ result[1].missing = missing
           /\ AddedIds = uris

C2_Witness ==
  /\ tpc = "done"
  /\ Len(tracks) = 2
  /\ tracks[1] # tracks[2]
  /\ ( \/ Len(result[1].missing) = 2
       \/ Len(AddedIds) = 2 /\ AddedIds[1] # AddedIds[2] )

\* the admissions of user u on the paths in P, oldest first
AdmittedOn(u, P) ==
  SelectSeq(admitted, LAMBDA a : a.user = u /\ a.path \in P)

\* the admissions that preceded the last check
AdmittedBefore(u, P) ==
  LET a == AdmittedOn(u, P)
  IN  IF last.allowed /\ last.user = u /\ last.path \in P
      THEN SubSeq(a, 1, Len(a) - 1) ELSE a

\* how many of the admissions in a fall inside the window that ends at instant s
InWindow(a, s) ==
  Cardinality({i \in DOMAIN a : s - EffectiveWindow(window_minutes) < a[i].t /\ a[i].t <= s})

\* C3: with the store reachable, no window of window_minutes holds more than
\* max_requests admissions of one user, for app.check_rate_limit and for the
\* Redis path of RateLimiter.check_rate_limit.
C3_WindowBound ==
  \A u \in Users, s \in 0..MaxTime :
    InWindow(AdmittedOn(u, {"app", "primary"}), s) <= EffectiveMax(max_requests)

\* C4: once the window has elapsed past the oldest of the last max_requests
\* admissions of a user, the next check of that user is Allowed, for
\* app.check_rate_limit and for the Redis path of RateLimiter.check_rate_limit.
C4_ReadmittedAfterWindow ==
  last.path \in {"app", "primary"} =>
    LET a == AdmittedBefore(last.user, {last.path})
        m == EffectiveMax(max_requests)
    IN  (Len(a) >= m /\ last.t > a[Len(a) - m + 1].t + EffectiveWindow(window_minutes))
          => last.allowed

\* C5: a Denied check records no timestamp: but for pruning, the stored
\* timestamps of the user are the same after it as before, on every path that
\* counts.
C5_DeniedRecordsNothing ==
  (last.path \in {"app", "primary", "degraded"} /\ ~last.allowed) =>
    KeepLive(last.after, last.t, EffectiveWindow(window_minutes))
      = KeepLive(last.before, last.t, EffectiveWindow(window_minutes))

\* C6: of two concurrent checks of one user that find max_requests - 1 live
\* timestamps, at most one is Allowed, both on the pipeline path and on the
\* get/setex path.
C6_AtMostOneAllowed ==
  ( /\ \A p \in Procs : rpc[p] = "done"
    /\ rres[1].path = rres[2].path
    /\ rres[1].path \in {"primary", "degraded"} )
    => ~(rres[1].allowed /\ rres[2].allowed)

\* C7: with the store unreachable (redis_client None, or every command of the
\* call failing) the check still decides as the sliding window does: it is
\* Allowed exactly when fewer than max_requests admissions of the user lie in
\* the window.
C7_DegradedStillLimits ==
  last.path = "failopen" =>
    (last.allowed <=>
       InWindow(AdmittedBefore(last.user, {"primary", "degraded", "failopen"}), last.t)
         < EffectiveMax(max_requests))

\* the instant t is on record for user u in the store
Recorded(u, t) ==
  \/ t \in zset[u].members
  \/ \E i \in DOMAIN fbkey[u].val : fbkey[u].val[i] = t

\* C8: the pair RateLimiter.check_rate_limit returns tells denied, allowed and
\* allowed by fail-open apart: a fail-open admission never carries "OK", and
\* "OK" is only returned when the count was below max_requests and the
\* timestamp is on record.
C8_Distinguishable ==
  (impl = "limiter" /\ last.path # "none") =>
    /\ last.allowed <=> last.msg # MSG_LIMIT
    /\ last.path = "failopen" => (last.allowed /\ last.msg # MSG_OK)
    /\ last.msg = MSG_OK =>
         /\ last.path \in {"primary", "degraded"}
         /\ last.count < EffectiveMax(max_requests)
         /\ Recorded(last.user, last.t)

C8_Witness ==
  /\ impl = "limiter"
  /\ redis_client
  /\ last.path = "failopen"
  /\ \E i \in DOMAIN admitted : admitted[i].path = "degraded"
  /\ \E i \in DOMAIN admitted : admitted[i].path = "primary"

\* C9: when the field-scoped query of search_spotify has a hit, neither the
\* oracle nor the fuzzy matcher is invoked and the id returned is the first
\* hit's.
C9_TierPrecedence ==
  ( /\ rout # <<>>
    /\ rin.platform = "spotify"
    /\ rin.r1.kind = "ok"
    /\ rin.r1.items # <<>> )
    => /\ \A i \in DOMAIN rout[1].calls : rout[1].calls[i] \notin {"ai", "fuzzy"}
       /\ rout[1].id = rin.r1.items[1].id
       /\ ~rout[1].raised

C9_Witness ==
  /\ rout # <<>>
  /\ rin.platform = "spotify"
  /\ rin.r1.kind = "ok"
  /\ Len(rin.r1.items) = 2
  /\ rin.r1.items[1].id # rin.r1.items[2].id
  /\ rout[1].id = rin.r1.items[1].id

\* the candidate display strings search_ytmusic / search_spotify show the oracle
ShownTo(in) ==
  LET shown == IF in.platform = "ytmusic" THEN Take(in.r1.items, SearchLimit)
               ELSE in.r2.items
  IN  {DisplayOf(shown[i]) : i \in DOMAIN shown}

\* the oracle raised, or answered neither "NONE" nor a candidate
OracleFailed(in) ==
  \/ in.resp.kind = "raise"
  \/ /\ Strip(in.resp.text) # NONE_STR
     /\ Strip(in.resp.text) \notin ShownTo(in)

\* the search of in, had the oracle answered "NONE"
WithNone(in) ==
  IF in.platform = "ytmusic"
  THEN search_ytmusic(in.title, in.artist, in.r1, OracleText(NONE_STR))
  ELSE search_spotify(in.title, in.artist, in.r1, in.r2, OracleText(NONE_STR))

\* C10: a failed oracle (an exception, a timeout, an answer that is neither
\* "NONE" nor a candidate) leaves the search with the decision it takes when
\* the oracle answers "NONE".
C10_FailureAsNone ==
  ( /\ rout # <<>>
    /\ \E i \in DOMAIN rout[1].calls : rout[1].calls[i] = "ai"
    /\ OracleFailed(rin) )
    => /\ rout[1].id = WithNone(rin).id
       /\ rout[1].raised = WithNone(rin).raised

\* some call of the transfer belongs to the loop over the tracks
LoopEntered == \E i \in DOMAIN calls : calls[i].track > 0

\* C11: a failure while resolving one track never ends the transfer: once the
\* loop over the tracks has started, for either target, the call fails only
\* after every track was processed, and never with a search error.
C11_TrackFailureAbsorbed ==
  (tpc = "failed" /\ LoopEntered) =>
    /\ Len(found) = Len(tracks)
    /\ error # "Search"

\* C12: for either target no call of the loop over the tracks (search, oracle)
\* is issued before the destination playlist was created, and a transfer whose
\* playlist creation failed has issued none.
C12_CreateBeforeSearch ==
  /\ \A i \in DOMAIN calls :
       calls[i].track > 0 => \E j \in 1..(i - 1) : calls[j].op = "create_playlist"
  /\ error \in {"PlaylistCreation", "NotImplemented"} => ~LoopEntered

\* the host of u is a host of one of the two platforms
HostRecognized(u) == Mentions(u.host, "youtube") \/ Mentions(u.host, "spotify")

\* C13: a request whose URL has no http/https scheme, or whose host is not a
\* platform's, is rejected before any call to a platform, through
\* safe_transfer_playlist and through transfer_playlist alike.
C13_RejectedBeforeNetwork ==
  (tpc # "idle" /\ (url.scheme \notin {"http", "https"} \/ ~HostRecognized(url))) =>
    /\ tpc \in {"failed", "rejected"}
    /\ calls = <<>>

\* C14: when reading the source playlist fails the transfer fails at once and
\* leaves nothing behind: no playlist is created, no search or oracle call is
\* issued, nothing is appended and no result is returned.
C14_ReadFailureFatal ==
  error = "SourceRead" =>
    /\ tpc = "failed"
    /\ calls = <<Call("read_source", 0)>>
    /\ found = <<>>
    /\ added = <<>>
    /\ result = <<>>
    /\ reply \in {<<>>, <<ErrorReply(MSG_TRANSFER_FAILED)>>}

C14_Witness ==
  /\ error = "SourceRead"
  /\ via = "safe"
  /\ reply # <<>>
  /\ extract_youtube_playlist_id(url) = "PL1"

\* C15: a result (playlist_url and missing) is returned only by a transfer that
\* created its destination playlist; a transfer to 'youtube' never returns one,
\* whatever its searches found, and the wrapper reports it as an error.
C15_ResultNeedsPlaylist ==
  /\ result # <<>> =>
       /\ tpc = "done"
       /\ target = "spotify"
       /\ error = "none"
       /\ \E i \in DOMAIN calls : calls[i].op = "create_playlist"
  /\ tpc = "done" => result # <<>>
  /\ target = "youtube" => tpc # "done"
  /\ (reply # <<>> /\ reply[1].kind = "result") => reply[1].value = result
  /\ (reply # <<>> /\ target = "youtube") => reply[1].kind = "error"

C15_Witness ==
  /\ target = "youtube"
  /\ error = "NotImplemented"
  /\ Len(uris) = 2
  /\ missing = <<>>
  /\ reply = <<ErrorReply(MSG_TRANSFER_FAILED)>>

\* the number of calls of op issued so far
CallCount(op) == Cardinality({i \in DOMAIN calls : calls[i].op = op})

\* C16: in a transfer to 'spotify' playlist_add_items is called exactly when
\* some track was resolved; with none resolved (or an empty source) it is not
\* called and the transfer returns the created playlist's URL with every
\* source track in missing.
C16_AppendIffResolved ==
  /\ CallCount("add_items") > 0 => (uris # <<>> /\ added = <<uris>>)
  /\ (target = "spotify" /\ (tpc = "done" \/ error = "Append")) =>
       /\ CallCount("add_items") > 0 <=> uris # <<>>
       /\ uris = <<>> =>
            /\ tpc = "done"
            /\ added = <<>>
            /\ result[1].playlist_url = "spotify_url"
            /\ Len(result[1].missing) = Len(tracks)

C16_Witness ==
  /\ target = "spotify"
  /\ tpc = "done"
  /\ Len(tracks) = 2
  /\ uris = <<>>
  /\ Len(result[1].missing) = 2

\* C17: within one transfer the destination playlist is created at most once,
\* playlist_add_items is called at most once, and only after a creation that
\* succeeded, on every path, failing ones included.
C17_AtMostOnce ==
  /\ CallCount("create_playlist") <= 1
  /\ CallCount("add_items") <= 1
  /\ \A i \in DOMAIN calls :
       calls[i].op = "add_items" =>
         /\ \E j \in 1..(i - 1) : calls[j].op = "create_playlist"
         /\ error \notin {"PlaylistCreation", "NotImplemented"}

C17_Witness ==
  /\ CallCount("create_playlist") = 1
  /\ CallCount("add_items") = 1
  /\ error = "Append"
  /\ Len(calls) > 4

\* C19: a playlist_add_items that fails after matches were found ends the
\* transfer in failure: no result is returned and the wrapper answers with an
\* error, whereas a transfer in which no track matched returns a result.
C19_AppendFailureSurfaced ==
  /\ error = "Append" =>
       /\ tpc = "failed"
       /\ uris # <<>>
       /\ result = <<>>
       /\ reply # <<>> => reply[1].kind = "error"
  /\ (tpc = "done" /\ uris = <<>>) =>
       /\ error = "none"
       /\ result # <<>>
       /\ reply # <<>> => reply[1].kind = "result"

C19_Witness ==
  /\ error = "Append"
  /\ via = "safe"
  /\ reply = <<ErrorReply(MSG_TRANSFER_FAILED)>>
  /\ Len(missing) = 1

\* the results the lookup of the chosen string runs over
LookedUp(in) == IF in.platform = "ytmusic" THEN in.r1.items ELSE in.r2.items

\* C20: when the string the AI tier or the fuzzy tier chose is the display
\* string of several candidates, the id returned is that of the first of them
\* in the order the platform returned them.
C20_FirstMatchWins ==
  ( /\ rout # <<>>
    /\ \E i \in DOMAIN rout[1].calls : rout[1].calls[i] = "ai"
    /\ rout[1].id # NoId )
    => LET items == LookedUp(rin)
           k == CHOOSE i \in DOMAIN items : items[i].id = rout[1].id
           same == {i \in DOMAIN items :
                      HasArtist(items[i]) /\ DisplayOf(items[i]) = DisplayOf(items[k])}
       IN  rout[1].id = items[CHOOSE i \in same : \A m \in same : i <= m].id

C20_Witness ==
  /\ rout # <<>>
  /\ rin.platform = "ytmusic"
  /\ rin.r1.items = <<ItemX2, ItemX1>>
  /\ rin.resp = OracleText(<<"a", "b", " ", "x">>)
  /\ rout[1].id = "id2"

\* C18: clean_title is idempotent: applied to its own result it returns that
\* result.
C18_Idempotent ==
  Len(cout) = 2 => cout[2] = cout[1]

\* C21: within one transfer the tracks are resolved one after the other in
\* source order: the calls made for the tracks come in non-decreasing track
\* index with no track skipped, and playlist_add_items comes last, after the
\* calls of every track.
C21_Sequential ==
  /\ \A i \in DOMAIN calls, j \in DOMAIN calls :
       (i < j /\ calls[i].track > 0 /\ calls[j].track > 0)
         => calls[i].track <= calls[j].track
  /\ \A i \in DOMAIN calls :
       calls[i].track > 0 =>
         /\ calls[i].track <= Len(tracks)
         /\ \A k \in 1..(calls[i].track - 1) :
              \E j \in 1..(i - 1) : calls[j].track = k
  /\ \A i \in DOMAIN calls :
       calls[i].op = "add_items" =>
         /\ i = Len(calls)
         /\ \A k \in 1..Len(tracks) : \E j \in 1..(i - 1) : calls[j].track = k

C21_Witness ==
  /\ tpc = "done"
  /\ Len(tracks) = 2
  /\ CallCount("add_items") = 1
  /\ \E i \in DOMAIN calls : calls[i].track = 1 /\ calls[i].op = "ai"
  /\ \E i \in DOMAIN calls : calls[i].track = 2

\* C22: safe_transfer_playlist consults the governor first: a denied call is
\* answered with the rate-limit error without validation or transfer, and an
\* admitted call takes exactly one slot of the user's window, also when its
\* URL is then rejected or its transfer fails.
C22_GovernorFirst ==
  (via = "safe" /\ tpc # "idle") =>
    /\ last.user = SessionUser
    /\ last.path = "app"
    /\ ~last.allowed =>
         /\ tpc = "rejected"
         /\ reply = <<ErrorReply(MSG_LIMIT)>>
         /\ calls = <<>>
         /\ user_requests[SessionUser] = KeepLive(last.before, last.t, window_minutes)
    /\ last.allowed =>
         user_requests[SessionUser]
           = Append(KeepLive(last.before, last.t, window_minutes), last.t)

C22_Witness ==
  /\ via = "safe"
  /\ last.allowed
  /\ tpc = "rejected"
  /\ reply = <<ErrorReply(MSG_SCHEME)>>
  /\ Len(user_requests[SessionUser]) = 1

\* playlist_id as transfer_playlist extracts it for the detected platform
PlaylistIdOf(u) ==
  IF detect_platform(u) = "youtube" THEN extract_youtube_playlist_id(u)
  ELSE extract_spotify_playlist_id(u)

\* C23: for a URL of a recognized platform that carries no playlist id, the
\* extraction fails and transfer_playlist fails before it calls the source
\* read.
C23_NoIdNoRead ==
  (tpc # "idle" /\ detect_platform(url) # "None" /\ PlaylistIdOf(url) = "None") =>
    CallCount("read_source") = 0

\* the similarity r = <<2M, T>> is above the threshold
Exceeds(r) == r[1] * 10 > CutoffTenths * r[2]

\* C24: fallback_match returns a candidate exactly when the highest similarity
\* to the query is strictly above 0.7, and then one of highest similarity; a
\* best candidate at exactly 0.7 is not accepted.
C24_StrictThreshold ==
  mout # <<>> =>
    /\ mout[1] # None <=> \E i \in DOMAIN mc : Exceeds(Ratio(mc[i], mq))
    /\ mout[1] # None =>
         \E i \in DOMAIN mc :
           /\ mc[i] = mout[1][1]
           /\ \A j \in DOMAIN mc :
                Ratio(mc[j], mq)[1] * Ratio(mc[i], mq)[2]
                  <= Ratio(mc[i], mq)[1] * Ratio(mc[j], mq)[2]

\* the decision a check on the given path computes at instant now from the
\* stored timestamps ur (session list), z (sorted set) and k (get/setex key)
DecisionFrom(ur, z, k, now, path) ==
  IF path = "app" THEN Len(KeepLive(ur, now, window_minutes)) < max_requests
  ELSE IF path = "primary"
  THEN PipelineExec(z, now, now, EffectiveWindow(window_minutes)).count
         < EffectiveMax(max_requests)
  ELSE Len(KeepLive(KeyLive(k, now), now, EffectiveWindow(window_minutes)))
         < EffectiveMax(max_requests)

\* C25: a check for one user, allowed or denied, leaves the stored timestamps
\* of every other user as they were, and with them the decision any later
\* check of that other user computes, on the session path and on the primary
\* and degraded paths of the limiter.
C25_PerUser ==
  [][ \A u \in Users :
        (last' # last /\ last'.user # u) =>
          /\ user_requests'[u] = user_requests[u]
          /\ zset'[u] = zset[u]
          /\ fbkey'[u] = fbkey[u]
          /\ \A now \in clock..MaxTime, path \in {"app", "primary", "degraded"} :
               DecisionFrom(user_requests'[u], zset'[u], fbkey'[u], now, path)
                 = DecisionFrom(user_requests[u], zset[u], fbkey[u], now, path) ]_vars

\* a check of u2 has just been decided while u1 has a live timestamp on record
C25_Witness ==
  /\ last.user = "u2"
  /\ last.path \in {"app", "primary", "degraded"}
  /\ \/ KeepLive(user_requests["u1"], clock, window_minutes) # <<>>
     \/ ZLive(zset["u1"], clock) # {}
     \/ KeyLive(fbkey["u1"], clock) # <<>>
  /\ \E i \in DOMAIN admitted : admitted[i].user = "u1"

\* the search issued the given call
Issued(c) == \E i \in DOMAIN rout[1].calls : rout[1].calls[i] = c

\* C26: in search_spotify the AI tier and the fuzzy tier run only after both
\* catalog queries returned no items, so they never resolve a track: the
\* search returns an id exactly when the field-scoped query, or after it the
\* title-only query, returned a hit.
C26_TiersSeeNothing ==
  (rout # <<>> /\ rin.platform = "spotify") =>
    /\ (Issued("ai") \/ Issued("fuzzy")) =>
         /\ rin.r1.kind = "ok" /\ rin.r1.items = <<>>
         /\ rin.r2.kind = "ok" /\ rin.r2.items = <<>>
         /\ rout[1].id = NoId
    /\ rout[1].id # NoId <=>
         \/ rin.r1.kind = "ok" /\ rin.r1.items # <<>>
         \/ /\ rin.r1.kind = "ok" /\ rin.r1.items = <<>>
            /\ rin.r2.kind = "ok" /\ rin.r2.items # <<>>

\* both queries came back empty and the oracle answered the very string asked for
C26_Witness ==
  /\ rout # <<>>
  /\ rin.platform = "spotify"
  /\ Issued("ai")
  /\ rin.resp = OracleText(Display(rin.title, rin.artist))
  /\ rout[1].id = NoId

\* C27: the id search_ytmusic returns, when not None, is the id of one of the
\* candidates shown to the resolver, that is of one of the first SearchLimit
\* search results, whatever the oracle answers.
C27_IdAmongShown ==
  (rout # <<>> /\ rin.platform = "ytmusic" /\ rout[1].id # NoId) =>
    \E i \in DOMAIN Take(rin.r1.items, SearchLimit) : rin.r1.items[i].id = rout[1].id

\* the admissions of the last check's user made on the other store-backed path
\* at earlier instants of the window that ends with the last check
CountedElsewhere ==
  LET other == {"primary", "degraded"} \ {last.path}
  IN  {i \in DOMAIN admitted :
         /\ admitted[i].user = last.user
         /\ admitted[i].path \in other
         /\ last.t - EffectiveWindow(window_minutes) < admitted[i].t
         /\ admitted[i].t < last.t}

\* C28: the primary and the degraded path count against one window per user:
\* a check is Allowed on one of them only while the admissions the other path
\* recorded earlier in the window number fewer than max_requests.
C28_SharedWindow ==
  (last.allowed /\ last.path \in {"primary", "degraded"}) =>
    Cardinality(CountedElsewhere) < EffectiveMax(max_requests)

\* C29: RateLimiter.check_rate_limit decides with exactly the max_requests and
\* window_minutes it was passed, whatever integers they are: the count is that
\* of the stored timestamps inside the window passed, and the check is Allowed
\* exactly when that count is below the max_requests passed, so with
\* max_requests = 0 every check is Denied.
C29_ArgsHonoured ==
  last.path \in {"primary", "degraded"} =>
    /\ last.count = Len(KeepLive(last.before, last.t, window_minutes))
    /\ last.allowed <=> last.count < max_requests

\* the step is a check of the user the last get_rate_limit_info was about, made
\* at the instant of that call on the keys as that call left them, the store
\* answering both the zcount and the pipeline
CheckFollowsInfo ==
  /\ info # NoInfo
  /\ info' = info
  /\ <<admitted, last, zset, fbkey>>' # <<admitted, last, zset, fbkey>>
  /\ last'.user = info.user
  /\ last'.t = info.t
  /\ info.ok /\ last'.path = "primary"
  /\ info.seen = [z |-> zset[info.user], k |-> fbkey[info.user]]

\* C30: get_rate_limit_info is read-only and agrees with admission: it leaves
\* every stored timestamp as it was, it reports 0 <= remaining <= max_requests,
\* and with the configured default limits it reports remaining = 0 exactly
\* when the check_rate_limit of the same user that follows it at once, the
\* store answering both, is Denied.
C30_InfoAgrees ==
  [][ /\ info' # info =>
           /\ UNCHANGED rateVars
           /\ 0 <= info'.remaining /\ info'.remaining <= info'.max_requests
      /\ CheckFollowsInfo => (info.remaining = 0 <=> ~last'.allowed) ]_vars

====
